---- MODULE Spec2Model ----
(***************************************************************************)
(* nexo-mail: the lead-intake webhook (sheet/route.ts), the purchase        *)
(* webhook (woocommerce/route.ts), the lead-listing endpoint                *)
(* (leads/route.ts), the lead store on the key-value backend (storage.ts)   *)
(* and the CRM connector (brevo.ts), as one state machine.                  *)
(*                                                                         *)
(* Every request is a process; its steps are the handler's await points    *)
(* (one step per key-value command or CRM call), so that requests          *)
(* interleave exactly where the runtime lets them.  A key-value command    *)
(* may fail (the backend is unreachable) at every call.                    *)
(*                                                                         *)
(* JavaScript strings on which the code works character by character       *)
(* (emails, names, order ids) are sequences of one-character strings;      *)
(* strings that are only compared (tags, statuses, messages) are TLA+      *)
(* strings.  An optional value is a set: {} for undefined, {v} for v.      *)
(***************************************************************************)
EXTENDS Integers, Sequences, FiniteSets, TLC

\* ------------------------------------------------------------------ bounds

\* Number of requests the system receives when it serves them one at a time.
NumReq == 3

\* Number of requests the system receives when it serves them concurrently.
NumConc == 2

Slots == 1..NumReq

ConcSlots == 1..NumConc

\* ------------------------------------------------------- JavaScript values

None == {}

Some(x) == {x}

The(o) == CHOOSE x \in o : TRUE

Undefined == [t |-> "undefined"]

Str(chars) == [t |-> "string", c |-> chars]

Atom(a) == [t |-> "atom", a |-> a]

Num(n) == [t |-> "number", n |-> n]

Obj(fields) == [t |-> "object", o |-> fields]

\* typeof v
TypeOf(v) == IF v.t = "atom" THEN "string" ELSE v.t

\* The truthiness of v (!!v).
Truthy(v) ==
  CASE v.t = "string" -> Len(v.c) > 0
    [] v.t = "atom" -> v.a # ""
    [] v.t = "number" -> v.n # 0
    [] v.t = "object" -> TRUE
    [] OTHER -> FALSE

\* obj.key of a parsed JSON object: undefined when the key is absent.
Field(fields, key) == IF key \in DOMAIN fields THEN fields[key] ELSE Undefined

IsSpace(ch) == ch = " "

LowerChar(ch) ==
  CASE ch = "A" -> "a"
    [] ch = "B" -> "b"
    [] ch = "C" -> "c"
    [] ch = "X" -> "x"
    [] OTHER -> ch

\* String.prototype.toLowerCase
ToLowerCase(s) == [i \in 1..Len(s) |-> LowerChar(s[i])]

RECURSIVE TrimStart(_)
TrimStart(s) == IF s # <<>> /\ IsSpace(Head(s)) THEN TrimStart(Tail(s)) ELSE s

RECURSIVE TrimEnd(_)
TrimEnd(s) ==
  IF s # <<>> /\ IsSpace(s[Len(s)]) THEN TrimEnd(SubSeq(s, 1, Len(s) - 1)) ELSE s

\* String.prototype.trim
Trim(s) == TrimEnd(TrimStart(s))

Digit(d) == <<"0", "1", "2", "3", "4", "5", "6", "7", "8", "9">>[d + 1]

\* Number.prototype.toString of a non-negative integer
RECURSIVE NumToString(_)
NumToString(n) ==
  IF n < 10 THEN <<Digit(n)>> ELSE NumToString(n \div 10) \o <<Digit(n % 10)>>

\* ------------------------------------------------------------ test inputs

EmailA == <<"a", "@", "b", ".", "c">>

EmailAUpper == <<"A", "@", "B", ".", "c">>

EmailX == <<"x", "@", "b", ".", "c">>

EmailPadded == <<" ", "A", "@", "b", ".", "c", " ">>

EmailNoAt == <<"a", "b", ".", "c">>

EmailNoDot == <<"a", "@", "b">>

EmailTwoAt == <<"a", "@", "@", "b", ".", "c">>

NameAna == <<" ", "A", "n", "a", " ">>

PhoneOne == <<"1", " ">>

SourceWeb == <<"w", "e", "b", " ">>

SourceInstagram == <<"i", "n", "s", "t", "a", "g", "r", "a", "m">>

\* The configured secrets (process.env) and the values a caller may send.
ApiSecret == "test-secret-key"

WooSecret == "test-woo-secret"

\* process.env of the deployment: each secret is set or missing.
Envs ==
  { [API_SECRET_KEY |-> Some(ApiSecret), WOOCOMMERCE_WEBHOOK_SECRET |-> Some(WooSecret)],
    [API_SECRET_KEY |-> None, WOOCOMMERCE_WEBHOOK_SECRET |-> Some(WooSecret)],
    [API_SECRET_KEY |-> Some(ApiSecret), WOOCOMMERCE_WEBHOOK_SECRET |-> None] }

\* x-api-key header values: missing, right, wrong.
ApiKeyHeaders == {None, Some(ApiSecret), Some("wrong-key")}

\* Bodies of lead-intake requests: json is what request.json() yields, None
\* when the body is not parseable JSON.
SheetBodies ==
  << [json |-> Some(Obj([email |-> Str(EmailX)]))],
     [json |-> Some(Obj([email |-> Str(EmailAUpper), name |-> Str(NameAna),
                         phone |-> Str(PhoneOne), source |-> Str(SourceWeb),
                         tag |-> Atom("youtube")]))],
     [json |-> Some(Obj([email |-> Str(EmailX), tag |-> Atom("general"),
                         name |-> Num(7)]))],
     [json |-> Some(Obj([email |-> Str(EmailX), tag |-> Atom("")]))],
     [json |-> Some(Obj([email |-> Str(EmailA), tag |-> Atom("reel-fitness")]))],
     [json |-> Some(Obj([email |-> Str(EmailA), tag |-> Atom("invalid-tag")]))],
     [json |-> Some(Obj([email |-> Str(EmailA), tag |-> Num(5)]))],
     [json |-> Some(Obj([email |-> Str(EmailNoAt)]))],
     [json |-> Some(Obj([email |-> Str(EmailNoDot), tag |-> Atom("general")]))],
     [json |-> Some(Obj([email |-> Str(EmailTwoAt)]))],
     [json |-> Some(Obj([email |-> Str(EmailPadded)]))],
     [json |-> Some(Obj([email |-> Str(<<>>)]))],
     [json |-> Some(Obj([email |-> Num(5)]))],
     [json |-> Some(Obj([name |-> Str(NameAna), tag |-> Atom("general")]))],
     [json |-> Some(Num(0))],
     [json |-> Some(Atom("text"))],
     [json |-> None] >>

\* --------------------------------------------------------------- the state

VARIABLES
  env,       \* process.env: the configured secrets
  kvLeads,   \* hash 'leads': lead id -> lead record
  kvEmail,   \* hash 'leads:email': email -> lead id
  nextId,    \* number of ids generateId has produced
  now,       \* the clock (Date.now)
  req,       \* the requests: each slot's handler position, locals and response
  last,      \* the request received last, as sent: its slot, headers and body
  sheet,     \* the spreadsheet: row number -> the row's email and status cells
  runs       \* the executions of the spreadsheet script: function, position, locals

vars == <<env, kvLeads, kvEmail, nextId, now, req, last, sheet, runs>>

\* Number of executions of the spreadsheet script that may overlap.
NumRuns == 2

\* Number of data rows the spreadsheet may come to hold.
MaxRows == 2

Runs == 1..NumRuns

IdleRun == [fn |-> "idle", pc |-> "idle", row |-> 0, lastRow |-> 0, value |-> ""]

IdleReq ==
  [kind |-> "idle", pc |-> "idle", payload |-> None, lead |-> None, idx |-> None,
   cur |-> None, brevo |-> None, resp |-> None, calls |-> <<>>]

Init ==
  /\ env \in Envs
  /\ kvLeads = <<>>
  /\ kvEmail = <<>>
  /\ nextId = 0
  /\ now = 0
  /\ req = [r \in Slots |-> IdleReq]
  /\ last = [slot |-> 0, kind |-> "idle", apiKey |-> None, signature |-> None, body |-> 0]
  /\ sheet = <<>>
  /\ runs = [k \in Runs |-> IdleRun]

InFlight == {r \in Slots : req[r].pc \notin {"idle", "done"}}

\* A request arrives: slots are taken in order, at most limit at a time.
CanStart(r, limit) ==
  /\ req[r].pc = "idle"
  /\ IF r = 1 THEN TRUE ELSE req[r - 1].pc # "idle"
  /\ Cardinality(InFlight) < limit

\* NextResponse.json(body, {status})
Response(status, success, message, error, leadId) ==
  [status |-> status, success |-> success, message |-> message, error |-> error,
   leadId |-> leadId, leads |-> None, metrics |-> None]

\* A plain message without interpolated values.
Msg(text) == [text |-> text, orderId |-> None, status |-> None, email |-> None]

\* The handler returns: the request is done with this response.
Respond(rq, resp) ==
  [rq EXCEPT !.pc = "done", !.resp = Some(resp), !.idx = None, !.cur = None,
             !.brevo = None]

Called(rq, call) == [rq EXCEPT !.calls = Append(@, call)]

\* --------------------------------------------------- storage.ts: the store

\* Mutant: the hash replaced by the one field written (kv.set of the key).
HSetAlone(f, k, v) == [x \in {k} |-> v]

\* function f with key k set to v (kv.hset of one field)
HSet(f, k, v) == [x \in DOMAIN f \cup {k} |-> IF x = k THEN v ELSE f[x]]

\* kv.hget: None when the field is absent
HGet(f, k) == IF k \in DOMAIN f THEN Some(f[k]) ELSE None

\* The lead saveLead builds from the intake data.
NewLead(data, id, at) ==
  [id |-> id, email |-> data.email, name |-> data.name, phone |-> data.phone,
   source |-> data.source, tag |-> data.tag, status |-> "new",
   brevoContactId |-> None, woocommerceOrderId |-> None, createdAt |-> at]

\* Mutant: {...additionalData, ...lead, status}, where the lead's own fields
\* replace those of additionalData.
UpdatedLeadDataFirst(lead, status, additionalData) ==
  [k \in DOMAIN lead |-> IF k = "status" THEN status ELSE lead[k]]

\* {...lead, ...additionalData, status}: a key present in additionalData
\* replaces the lead's, also when its value is undefined.
UpdatedLead(lead, status, additionalData) ==
  [k \in DOMAIN lead |->
     IF k = "status" THEN status
     ELSE IF k \in DOMAIN additionalData THEN additionalData[k]
     ELSE lead[k]]

\* ---------------------------------------- sheet/route.ts: lead intake POST

VALID_TAGS == {"general", "programa-de", "eyaculacion-precoz", "youtube"}

\* Mutant: apiKey == process.env.API_SECRET_KEY, which takes a missing header
\* for a missing variable.
validateApiKeyLoose(header) == header = env.API_SECRET_KEY

\* apiKey === process.env.API_SECRET_KEY (a missing header is null, a missing
\* variable is undefined: they are never equal).
validateApiKey(header) == header # None /\ header = env.API_SECRET_KEY

\* /^[^\s@]+@[^\s@]+\.[^\s@]+$/
validateEmail(email) ==
  /\ \A i \in 1..Len(email) : ~IsSpace(email[i])
  /\ Cardinality({i \in 1..Len(email) : email[i] = "@"}) = 1
  /\ \E i \in 2..Len(email) :
       /\ email[i] = "@"
       /\ \E j \in (i + 2)..(Len(email) - 1) : email[j] = "."

\* (payload.tag as string) || 'general'
TagOrDefault(tag) == IF Truthy(tag) THEN tag ELSE Atom("general")

\* The result of validatePayload(data).
validatePayload(data) ==
  IF ~Truthy(data) \/ TypeOf(data) # "object"
  THEN [valid |-> FALSE, error |-> "Invalid payload", payload |-> None]
  ELSE LET email == Field(data.o, "email")
           name == Field(data.o, "name")
           phone == Field(data.o, "phone")
           source == Field(data.o, "source")
           tag == TagOrDefault(Field(data.o, "tag")) IN
    IF ~Truthy(email) \/ TypeOf(email) # "string"
    THEN [valid |-> FALSE, error |-> "Email is required", payload |-> None]
    ELSE IF ~validateEmail(email.c)
    THEN [valid |-> FALSE, error |-> "Invalid email format", payload |-> None]
    ELSE IF ~(tag.t = "atom" /\ tag.a \in VALID_TAGS)
    THEN [valid |-> FALSE, error |-> "Invalid tag. Must be one of: ...", payload |-> None]
    ELSE [valid |-> TRUE, error |-> "",
          payload |-> Some([email |-> Trim(ToLowerCase(email.c)),
                            name |-> IF TypeOf(name) = "string" THEN Some(Trim(name.c)) ELSE None,
                            phone |-> IF TypeOf(phone) = "string" THEN Some(Trim(phone.c)) ELSE None,
                            source |-> IF TypeOf(source) = "string" THEN Trim(source.c)
                                       ELSE SourceInstagram,
                            tag |-> tag.a])]

InternalError == Response(500, FALSE, Msg("Internal server error"), Some("backend error"), None)

\* POST up to its first await on the store: the API key, the body, the payload.
SheetPostWhen(r, limit) ==
  /\ CanStart(r, limit)
  /\ \E header \in ApiKeyHeaders, b \in 1..Len(SheetBodies) :
       LET body == SheetBodies[b].json
           rq == [req[r] EXCEPT !.kind = "sheet"]
           validation == validatePayload(The(body)) IN
       /\ req' = [req EXCEPT ![r] =
         IF ~validateApiKey(header)
         THEN Respond(rq, Response(401, FALSE, Msg("Unauthorized"),
                                   Some("Invalid or missing API key"), None))
         ELSE IF body = None
         THEN Respond(rq, Response(400, FALSE, Msg("Invalid JSON"),
                                   Some("Could not parse request body"), None))
         ELSE IF ~validation.valid \/ validation.payload = None
         THEN Respond(rq, Response(400, FALSE, Msg("Validation failed"),
                                   Some(validation.error), None))
         ELSE [rq EXCEPT !.pc = "getLeadByEmail", !.payload = validation.payload]]
       /\ last' = [slot |-> r, kind |-> "sheet", apiKey |-> header, signature |-> None,
                   body |-> b]
  /\ UNCHANGED <<env, kvLeads, kvEmail, nextId, now, sheet, runs>>

\* ------------------------------------------------- brevo.ts: CRM connector

\* What the CRM backend answers to one call: the call succeeds (with or
\* without an id in the response body) or it is rejected with a message.
BrevoCreateOutcomes ==
  { [ok |-> TRUE, id |-> Some(12345), message |-> None],
    [ok |-> TRUE, id |-> None, message |-> None],
    [ok |-> FALSE, id |-> None, message |-> Some("Contact already exist")],
    [ok |-> FALSE, id |-> None, message |-> Some("API Error")] }

BrevoUpdateOutcomes ==
  { [ok |-> TRUE, id |-> None, message |-> None],
    [ok |-> FALSE, id |-> None, message |-> Some("Contact not found")] }

\* message.includes('Contact already exist')
IsAlreadyExists(message) == message = Some("Contact already exist")

\* apiError.response?.body?.message || apiError.message || 'Unknown error'
ErrorMessage(outcome) == IF outcome.message # None THEN outcome.message ELSE Some("Unknown error")

\* Mutant: the catch without the case of the contact that already exists.
addContactToBrevoNoExistsCase(outcome) ==
  IF outcome.ok
  THEN [success |-> TRUE, contactId |-> outcome.id, error |-> None]
  ELSE [success |-> FALSE, contactId |-> None, error |-> ErrorMessage(outcome)]

\* The result of addContactToBrevo for the backend's answer.
addContactToBrevo(outcome) ==
  IF outcome.ok
  THEN [success |-> TRUE, contactId |-> outcome.id, error |-> None]
  ELSE IF IsAlreadyExists(outcome.message)
  THEN [success |-> TRUE, contactId |-> None, error |-> None]
  ELSE [success |-> FALSE, contactId |-> None, error |-> ErrorMessage(outcome)]

\* The result of markAsPurchased for the backend's answer.
markAsPurchased(outcome) ==
  IF outcome.ok
  THEN [success |-> TRUE, contactId |-> None, error |-> None]
  ELSE [success |-> FALSE, contactId |-> None, error |-> ErrorMessage(outcome)]

\* ------------------------------------------- sheet/route.ts: POST, the rest

\* Mutant: the CRM call issued without the lead being saved first.
OnNoLeadSkipSave == "addContactToBrevo"

\* if (!lead) { lead = await saveLead(...) }: where POST goes on when
\* getLeadByEmail returned null.
OnNoLead == "saveLead"

\* getLeadByEmail, first read: the email index.  A backend failure is caught
\* and reported as null, like a miss.
SheetGetLeadByEmail(r) ==
  /\ req[r].kind = "sheet" /\ req[r].pc = "getLeadByEmail"
  /\ \E ok \in BOOLEAN :
       LET email == The(req[r].payload).email
           rq == Called(req[r], <<"getLeadByEmail", email>>)
           leadId == HGet(kvEmail, email) IN
       req' = [req EXCEPT ![r] =
         IF ~ok \/ leadId = None
         THEN [rq EXCEPT !.pc = OnNoLead]
         ELSE [rq EXCEPT !.pc = "getLeadByEmail_record", !.idx = leadId]]
  /\ UNCHANGED <<env, kvLeads, kvEmail, nextId, now, last, sheet, runs>>

\* getLeadByEmail, second read: the record the index names.
SheetGetLeadRecord(r) ==
  /\ req[r].kind = "sheet" /\ req[r].pc = "getLeadByEmail_record"
  /\ \E ok \in BOOLEAN :
       LET leadJson == HGet(kvLeads, The(req[r].idx)) IN
       req' = [req EXCEPT ![r] =
         IF ~ok \/ leadJson = None
         THEN [@ EXCEPT !.pc = OnNoLead, !.idx = None]
         ELSE [@ EXCEPT !.pc = "addContactToBrevo", !.idx = None,
                        !.lead = Some(The(leadJson).id)]]
  /\ UNCHANGED <<env, kvLeads, kvEmail, nextId, now, last, sheet, runs>>

\* saveLead, first write: the record under a fresh id, stamped with the clock.
SheetSaveLead(r) ==
  /\ req[r].kind = "sheet" /\ req[r].pc = "saveLead"
  /\ \E ok \in BOOLEAN :
       LET p == The(req[r].payload)
           data == [p EXCEPT !.source = IF Len(p.source) > 0 THEN p.source
                                        ELSE SourceInstagram]
           id == nextId + 1
           lead == NewLead(data, id, now + 1)
           rq == Called(req[r], <<"saveLead", data.email>>) IN
       IF ok
       THEN /\ kvLeads' = HSet(kvLeads, id, lead)
            /\ nextId' = id
            /\ now' = now + 1
            /\ req' = [req EXCEPT ![r] = [rq EXCEPT !.pc = "saveLead_index",
                                                    !.lead = Some(id)]]
       ELSE /\ req' = [req EXCEPT ![r] = Respond(rq, InternalError)]
            /\ UNCHANGED <<kvLeads, nextId, now>>
  /\ UNCHANGED <<env, kvEmail, last, sheet, runs>>

\* saveLead, second write: the email index entry.
SheetSaveLeadIndex(r) ==
  /\ req[r].kind = "sheet" /\ req[r].pc = "saveLead_index"
  /\ \E ok \in BOOLEAN :
       IF ok
       THEN /\ kvEmail' = HSet(kvEmail, The(req[r].payload).email, The(req[r].lead))
            /\ req' = [req EXCEPT ![r].pc = "addContactToBrevo"]
       ELSE /\ req' = [req EXCEPT ![r] = Respond(@, InternalError)]
            /\ UNCHANGED kvEmail
  /\ UNCHANGED <<env, kvLeads, nextId, now, last, sheet, runs>>

\* The CRM call: addContactToBrevo never throws.
SheetAddContactToBrevo(r) ==
  /\ req[r].kind = "sheet" /\ req[r].pc = "addContactToBrevo"
  /\ \E outcome \in BrevoCreateOutcomes :
       LET p == The(req[r].payload)
           rq == Called(req[r], <<"addContactToBrevo", p>>) IN
       req' = [req EXCEPT ![r] =
                 [rq EXCEPT !.pc = "updateLeadStatus",
                            !.brevo = Some(addContactToBrevo(outcome))]]
  /\ UNCHANGED <<env, kvLeads, kvEmail, nextId, now, last, sheet, runs>>

\* What POST answers once updateLeadStatus has returned.
SheetResponse(rq) ==
  LET brevoResult == The(rq.brevo) IN
  IF brevoResult.success
  THEN Response(200, TRUE, Msg("Lead processed successfully"), None, rq.lead)
  ELSE Response(500, FALSE, Msg("Failed to add contact to Brevo"), brevoResult.error, rq.lead)

\* Mutant: the lead marked subscribed whatever the CRM answered.
SheetStatusAlwaysSubscribed(brevoResult) == "subscribed"

\* The status and the additional data POST passes to updateLeadStatus.
SheetStatus(brevoResult) == IF brevoResult.success THEN "subscribed" ELSE "error"

\* Mutant: the contact id the CRM returned is not passed on to the store.
SheetAdditionalDataEmpty(brevoResult) == <<>>

SheetAdditionalData(brevoResult) ==
  IF brevoResult.success THEN [brevoContactId |-> brevoResult.contactId] ELSE <<>>

\* updateLeadStatus, the read: null (no write) when the id is unknown.
SheetUpdateLeadStatus(r) ==
  /\ req[r].kind = "sheet" /\ req[r].pc = "updateLeadStatus"
  /\ \E ok \in BOOLEAN :
       LET brevoResult == The(req[r].brevo)
           rq == Called(req[r], <<"updateLeadStatus", SheetStatus(brevoResult)>>)
           leadJson == HGet(kvLeads, The(req[r].lead)) IN
       req' = [req EXCEPT ![r] =
         IF ~ok THEN Respond(rq, InternalError)
         ELSE IF leadJson = None THEN Respond(rq, SheetResponse(rq))
         ELSE [rq EXCEPT !.pc = "updateLeadStatus_write", !.cur = leadJson]]
  /\ UNCHANGED <<env, kvLeads, kvEmail, nextId, now, last, sheet, runs>>

\* updateLeadStatus, the write of the lead as read, merged with the new data.
SheetUpdateLeadStatusWrite(r) ==
  /\ req[r].kind = "sheet" /\ req[r].pc = "updateLeadStatus_write"
  /\ \E ok \in BOOLEAN :
       LET brevoResult == The(req[r].brevo)
           lead == The(req[r].cur)
           updatedLead == UpdatedLead(lead, SheetStatus(brevoResult),
                                      SheetAdditionalData(brevoResult)) IN
       IF ok
       THEN /\ kvLeads' = HSet(kvLeads, lead.id, updatedLead)
            /\ req' = [req EXCEPT ![r] = Respond(@, SheetResponse(@))]
       ELSE /\ req' = [req EXCEPT ![r] = Respond(@, InternalError)]
            /\ UNCHANGED kvLeads
  /\ UNCHANGED <<env, kvEmail, nextId, now, last, sheet, runs>>

\* ------------------------------- woocommerce/route.ts: purchase intake POST

\* crypto.createHmac('sha256', secret).update(payload).digest('base64'): a
\* keyed digest of fixed length, different for different keys or payloads.
HmacSha256Base64(secret, payload) == <<"sha256", secret, payload>>

\* Purchase request bodies: raw is the text received, json what JSON.parse
\* makes of it (None when it throws).
WooBodies ==
  << [raw |-> "completed-7-A", json |-> Some(Obj([id |-> Num(7), status |-> Atom("completed"),
        billing |-> Obj([email |-> Str(EmailPadded)])]))],
     [raw |-> "completed-12-x", json |-> Some(Obj([id |-> Num(12), status |-> Atom("completed"),
        billing |-> Obj([email |-> Str(EmailX)])]))],
     [raw |-> "pending-7-a", json |-> Some(Obj([id |-> Num(7), status |-> Atom("pending"),
        billing |-> Obj([email |-> Str(EmailA)])]))],
     [raw |-> "Completed-12-a", json |-> Some(Obj([id |-> Num(12), status |-> Atom("Completed"),
        billing |-> Obj([email |-> Str(EmailA)])]))],
     [raw |-> "empty-status", json |-> Some(Obj([id |-> Num(7), status |-> Atom(""),
        billing |-> Obj([email |-> Str(EmailA)])]))],
     [raw |-> "string-id", json |-> Some(Obj([id |-> Atom("not-a-number"),
        status |-> Atom("completed"), billing |-> Obj([email |-> Str(EmailA)])]))],
     [raw |-> "no-billing", json |-> Some(Obj([id |-> Num(7), status |-> Atom("completed")]))],
     [raw |-> "billing-not-object", json |-> Some(Obj([id |-> Num(7),
        status |-> Atom("completed"), billing |-> Atom("a@b.c")]))],
     [raw |-> "email-not-string", json |-> Some(Obj([id |-> Num(7),
        status |-> Atom("completed"), billing |-> Obj([email |-> Num(5)])]))],
     [raw |-> "status-not-string", json |-> Some(Obj([id |-> Num(7), status |-> Num(1),
        billing |-> Obj([email |-> Str(EmailA)])]))],
     [raw |-> "number", json |-> Some(Num(0))],
     [raw |-> "not-json", json |-> None],
     [raw |-> "completed-7-AB", json |-> Some(Obj([id |-> Num(7), status |-> Atom("completed"),
        billing |-> Obj([email |-> Str(EmailAUpper)])]))] >>

\* x-wc-webhook-signature header values for a body: missing, empty, the
\* right one, wrong ones of the same length, a shorter and a longer one.
WooSignatures(raw) ==
  { None,
    Some(<<>>),
    Some(HmacSha256Base64(WooSecret, raw)),
    Some(HmacSha256Base64("other-secret", raw)),
    Some(HmacSha256Base64(WooSecret, "another-body")),
    Some(<<"sha256">>),
    Some(HmacSha256Base64(WooSecret, raw) \o <<"=">>) }

\* crypto.timingSafeEqual: throws on buffers of different lengths.
timingSafeEqual(a, b) == [threw |-> Len(a) # Len(b), equal |-> a = b]

\* Mutant: the comparison without the length check before it.
verifyWithoutLengthCheck(payload, signature, secret) ==
  IF signature = None \/ signature = Some(<<>>)
  THEN [threw |-> FALSE, valid |-> FALSE]
  ELSE LET cmp == timingSafeEqual(The(signature), HmacSha256Base64(secret, payload)) IN
       [threw |-> cmp.threw, valid |-> ~cmp.threw /\ cmp.equal]

\* verifyWooCommerceSignature: threw says the call raised instead of returning.
verifyWooCommerceSignature(payload, signature, secret) ==
  IF signature = None \/ signature = Some(<<>>)
  THEN [threw |-> FALSE, valid |-> FALSE]
  ELSE LET expectedSignature == HmacSha256Base64(secret, payload) IN
       IF Len(The(signature)) # Len(expectedSignature)
       THEN [threw |-> FALSE, valid |-> FALSE]
       ELSE LET cmp == timingSafeEqual(The(signature), expectedSignature) IN
            [threw |-> cmp.threw, valid |-> ~cmp.threw /\ cmp.equal]

\* Mutant: parseOrder without its type checks on id and billing.email, a
\* value of another type read as 0 or as the empty string.
parseOrderUnchecked(data) ==
  IF ~Truthy(data) \/ TypeOf(data) # "object" THEN None
  ELSE LET id == Field(data.o, "id")
           status == Field(data.o, "status")
           billing == Field(data.o, "billing") IN
    IF TypeOf(status) # "string" \/ TypeOf(billing) # "object" THEN None
    ELSE Some([id |-> IF id.t = "number" THEN id.n ELSE 0,
               status |-> status.a,
               email |-> IF Field(billing.o, "email").t = "string"
                         THEN Field(billing.o, "email").c ELSE <<>>])

\* parseOrder: None for null, else the order's id, status and billing email.
parseOrder(data) ==
  IF ~Truthy(data) \/ TypeOf(data) # "object" THEN None
  ELSE LET id == Field(data.o, "id")
           status == Field(data.o, "status")
           billing == Field(data.o, "billing") IN
    IF \/ TypeOf(id) # "number"
       \/ TypeOf(status) # "string"
       \/ ~Truthy(billing)
       \/ TypeOf(billing) # "object"
    THEN None
    ELSE IF TypeOf(Field(billing.o, "email")) # "string" THEN None
    ELSE Some([id |-> id.n, status |-> status.a, email |-> Field(billing.o, "email").c])

\* Mutant: the status compared without regard to letter case.
IsCompletedAnyCase(status) == status \in {"completed", "Completed"}

\* order.status !== 'completed' decides that the order is skipped.
IsCompleted(status) == status = "completed"

SkippedMsg(order) ==
  [text |-> "Order {id} status is \"{status}\", skipping (only \"completed\" orders are processed)",
   orderId |-> Some(NumToString(order.id)), status |-> Some(order.status), email |-> None]

ProcessedMsg(orderId, email) ==
  [text |-> "Order {id} processed - {email} marked as purchased",
   orderId |-> Some(orderId), status |-> None, email |-> Some(email)]

WarningMsg(orderId) ==
  [text |-> "Order {id} processed with warning: Brevo update failed",
   orderId |-> Some(orderId), status |-> None, email |-> None]

\* An exception no handler catches: the framework answers 500.
Uncaught == Response(500, FALSE, Msg("uncaught exception"), None, None)

\* POST up to its first await on the CRM: the secret, the signature, the order.
WooPostWhen(r, limit) ==
  /\ CanStart(r, limit)
  /\ \E b \in 1..Len(WooBodies) : \E signature \in WooSignatures(WooBodies[b].raw) :
       LET secret == env.WOOCOMMERCE_WEBHOOK_SECRET
           rawBody == WooBodies[b].raw
           rq == [req[r] EXCEPT !.kind = "woo"]
           verified == verifyWooCommerceSignature(rawBody, signature, The(secret))
           orderData == WooBodies[b].json
           order == parseOrder(The(orderData)) IN
       /\ req' = [req EXCEPT ![r] =
         IF secret = None
         THEN Respond(rq, Response(500, FALSE, Msg("Server configuration error"),
                                   Some("Webhook secret not configured"), None))
         ELSE IF verified.threw THEN Respond(rq, Uncaught)
         ELSE IF ~verified.valid
         THEN Respond(rq, Response(401, FALSE, Msg("Unauthorized"),
                                   Some("Invalid signature"), None))
         ELSE IF orderData = None
         THEN Respond(rq, Response(400, FALSE, Msg("Invalid JSON"),
                                   Some("Could not parse request body"), None))
         ELSE IF order = None
         THEN Respond(rq, Response(400, FALSE, Msg("Invalid order data"),
                                   Some("Missing required fields"), None))
         ELSE IF ~IsCompleted(The(order).status)
         THEN Respond(rq, Response(200, TRUE, SkippedMsg(The(order)), None, None))
         ELSE [rq EXCEPT !.pc = "markAsPurchased",
                         !.payload = Some([email |-> Trim(ToLowerCase(The(order).email)),
                                           orderId |-> NumToString(The(order).id)])]]
       /\ last' = [slot |-> r, kind |-> "woo", apiKey |-> None, signature |-> signature,
                   body |-> b]
  /\ UNCHANGED <<env, kvLeads, kvEmail, nextId, now, sheet, runs>>

\* The CRM call: markAsPurchased never throws.
WooMarkAsPurchased(r) ==
  /\ req[r].kind = "woo" /\ req[r].pc = "markAsPurchased"
  /\ \E outcome \in BrevoUpdateOutcomes :
       LET p == The(req[r].payload)
           rq == Called(req[r], <<"markAsPurchased", p.email, p.orderId>>) IN
       req' = [req EXCEPT ![r] =
                 [rq EXCEPT !.pc = "getLeadByEmail",
                            !.brevo = Some(markAsPurchased(outcome))]]
  /\ UNCHANGED <<env, kvLeads, kvEmail, nextId, now, last, sheet, runs>>

\* What POST answers once markLeadAsPurchased has returned.
WooResponse(rq) ==
  LET p == The(rq.payload) IN
  IF The(rq.brevo).success
  THEN Response(200, TRUE, ProcessedMsg(p.orderId, p.email), None, None)
  ELSE Response(200, TRUE, WarningMsg(p.orderId), None, None)

\* markLeadAsPurchased: getLeadByEmail, first read.  A backend failure is
\* caught and reported as null: markLeadAsPurchased returns null.
WooGetLeadByEmail(r) ==
  /\ req[r].kind = "woo" /\ req[r].pc = "getLeadByEmail"
  /\ \E ok \in BOOLEAN :
       LET p == The(req[r].payload)
           rq == Called(req[r], <<"markLeadAsPurchased", p.email, p.orderId>>)
           leadId == HGet(kvEmail, p.email) IN
       req' = [req EXCEPT ![r] =
         IF ~ok \/ leadId = None
         THEN Respond(rq, WooResponse(rq))
         ELSE [rq EXCEPT !.pc = "getLeadByEmail_record", !.idx = leadId]]
  /\ UNCHANGED <<env, kvLeads, kvEmail, nextId, now, last, sheet, runs>>

\* markLeadAsPurchased: getLeadByEmail, second read.
WooGetLeadRecord(r) ==
  /\ req[r].kind = "woo" /\ req[r].pc = "getLeadByEmail_record"
  /\ \E ok \in BOOLEAN :
       LET leadJson == HGet(kvLeads, The(req[r].idx)) IN
       req' = [req EXCEPT ![r] =
         IF ~ok \/ leadJson = None
         THEN Respond(@, WooResponse(@))
         ELSE [@ EXCEPT !.pc = "updateLeadStatus", !.idx = None,
                        !.lead = Some(The(leadJson).id)]]
  /\ UNCHANGED <<env, kvLeads, kvEmail, nextId, now, last, sheet, runs>>

\* markLeadAsPurchased: updateLeadStatus, the read.
WooUpdateLeadStatus(r) ==
  /\ req[r].kind = "woo" /\ req[r].pc = "updateLeadStatus"
  /\ \E ok \in BOOLEAN :
       LET leadJson == HGet(kvLeads, The(req[r].lead)) IN
       req' = [req EXCEPT ![r] =
         IF ~ok THEN Respond(@, InternalError)
         ELSE IF leadJson = None THEN Respond(@, WooResponse(@))
         ELSE [@ EXCEPT !.pc = "updateLeadStatus_write", !.cur = leadJson]]
  /\ UNCHANGED <<env, kvLeads, kvEmail, nextId, now, last, sheet, runs>>

\* markLeadAsPurchased: updateLeadStatus, the write.
WooUpdateLeadStatusWrite(r) ==
  /\ req[r].kind = "woo" /\ req[r].pc = "updateLeadStatus_write"
  /\ \E ok \in BOOLEAN :
       LET lead == The(req[r].cur)
           updatedLead == UpdatedLead(lead, "purchased",
                            [woocommerceOrderId |-> Some(The(req[r].payload).orderId)]) IN
       IF ok
       THEN /\ kvLeads' = HSet(kvLeads, lead.id, updatedLead)
            /\ req' = [req EXCEPT ![r] = Respond(@, WooResponse(@))]
       ELSE /\ req' = [req EXCEPT ![r] = Respond(@, InternalError)]
            /\ UNCHANGED kvLeads
  /\ UNCHANGED <<env, kvEmail, nextId, now, last, sheet, runs>>

\* ---------------------------------------- storage.ts: listing and metrics

\* Object.values(allLeads): the stored leads in the order the hash yields
\* them, the order of insertion.
RECURSIVE ValuesFrom(_, _)
ValuesFrom(f, i) ==
  IF i > nextId THEN <<>>
  ELSE (IF i \in DOMAIN f THEN <<f[i]>> ELSE <<>>) \o ValuesFrom(f, i + 1)

Values(f) == ValuesFrom(f, 1)

RECURSIVE Filter(_, _, _)
Filter(leads, key, value) ==
  IF leads = <<>> THEN <<>>
  ELSE (IF Head(leads)[key] = value THEN <<Head(leads)>> ELSE <<>>)
         \o Filter(Tail(leads), key, value)

\* lead inserted into a list sorted by createdAt descending, after its equals
\* (Array.prototype.sort is stable).
RECURSIVE InsertSorted(_, _)
InsertSorted(sorted, lead) ==
  IF sorted = <<>> THEN <<lead>>
  ELSE IF Head(sorted).createdAt >= lead.createdAt
       THEN <<Head(sorted)>> \o InsertSorted(Tail(sorted), lead)
       ELSE <<lead>> \o sorted

RECURSIVE SortByCreatedAtDesc(_)
SortByCreatedAtDesc(leads) ==
  IF leads = <<>> THEN <<>>
  ELSE InsertSorted(SortByCreatedAtDesc(SubSeq(leads, 1, Len(leads) - 1)),
                    leads[Len(leads)])

Min(a, b) == IF a < b THEN a ELSE b

\* Array.prototype.slice(from, to) for 0 <= from <= to
Slice(a, from, to) == SubSeq(a, Min(from, Len(a)) + 1, Min(to, Len(a)))

DefaultLimit == 100

\* getLeads on the hash as read: filters, sort, pagination.  A limit or an
\* offset of 0 (or NaN) is replaced by the default.
getLeads(allLeads, options) ==
  LET leads0 == Values(allLeads)
      leads1 == IF options.status # None
                THEN Filter(leads0, "status", The(options.status)) ELSE leads0
      leads2 == IF options.tag # None
                THEN Filter(leads1, "tag", The(options.tag)) ELSE leads1
      sorted == SortByCreatedAtDesc(leads2)
      offset == IF options.offset # 0 THEN options.offset ELSE 0
      limit == IF options.limit # 0 THEN options.limit ELSE DefaultLimit IN
  Slice(sorted, offset, offset + limit)

\* The tags getMetrics counts.
MetricsTags == {"general", "reel-fitness", "reel-nutricion", "story-promo"}

CountWhere(leads, key, value) == Len(Filter(leads, key, value))

\* Mutant: the switch over lead.status without the case 'error'.
getMetricsWithoutErrorCase(allLeads) ==
  LET leads == Values(allLeads) IN
  [totalLeads |-> Len(leads),
   newLeads |-> CountWhere(leads, "status", "new"),
   subscribedLeads |-> CountWhere(leads, "status", "subscribed"),
   purchasedLeads |-> CountWhere(leads, "status", "purchased"),
   errorLeads |-> 0,
   leadsByTag |-> [t \in MetricsTags |-> CountWhere(leads, "tag", t)],
   leadsBySource |-> [src \in {leads[i].source : i \in 1..Len(leads)} |->
                        CountWhere(leads, "source", src)]]

\* getMetrics on the hash as read.
getMetrics(allLeads) ==
  LET leads == Values(allLeads) IN
  [totalLeads |-> Len(leads),
   newLeads |-> CountWhere(leads, "status", "new"),
   subscribedLeads |-> CountWhere(leads, "status", "subscribed"),
   purchasedLeads |-> CountWhere(leads, "status", "purchased"),
   errorLeads |-> CountWhere(leads, "status", "error"),
   leadsByTag |-> [t \in MetricsTags |-> CountWhere(leads, "tag", t)],
   leadsBySource |-> [src \in {leads[i].source : i \in 1..Len(leads)} |->
                        CountWhere(leads, "source", src)]]

\* ---------------------------------------- leads/route.ts: lead listing GET

\* The query strings tried: status and tag filters (None when absent), limit
\* and offset as parsed, and the metrics flag.
ListQueries ==
  << [status |-> None, tag |-> None, limit |-> 100, offset |-> 0, metrics |-> FALSE],
     [status |-> Some("purchased"), tag |-> None, limit |-> 100, offset |-> 0,
      metrics |-> TRUE],
     [status |-> None, tag |-> Some("youtube"), limit |-> 1, offset |-> 1,
      metrics |-> FALSE],
     [status |-> None, tag |-> None, limit |-> 0, offset |-> 0, metrics |-> FALSE] >>

\* GET up to its first await on the store: the API key and the query.
LeadsGetWhen(r, limit) ==
  /\ CanStart(r, limit)
  /\ \E header \in ApiKeyHeaders, q \in 1..Len(ListQueries) :
       LET rq == [req[r] EXCEPT !.kind = "leads"] IN
       /\ req' = [req EXCEPT ![r] =
         IF ~validateApiKey(header)
         THEN Respond(rq, Response(401, FALSE, Msg("Unauthorized"),
                                   Some("Invalid or missing API key"), None))
         ELSE [rq EXCEPT !.pc = "getLeads", !.payload = Some(ListQueries[q])]]
       /\ last' = [slot |-> r, kind |-> "leads", apiKey |-> header, signature |-> None,
                   body |-> q]
  /\ UNCHANGED <<env, kvLeads, kvEmail, nextId, now, sheet, runs>>

\* How the storage backend answered a read of the whole hash (kv.hgetall).
Answer(ok) == IF ok THEN "answered" ELSE "backend failed"

\* The ids of a list of leads, in order: what the response shows of them.
Ids(leads) == [i \in 1..Len(leads) |-> leads[i].id]

ListResponse(leads, metrics) ==
  [Response(200, TRUE, Msg(""), None, None) EXCEPT !.leads = Some(leads),
                                                   !.metrics = metrics]

\* getLeads: one read of the whole hash.  A backend failure is caught and
\* reported as an empty list.
LeadsGetLeads(r) ==
  /\ req[r].kind = "leads" /\ req[r].pc = "getLeads"
  /\ \E ok \in BOOLEAN :
       LET options == The(req[r].payload)
           rq == Called(req[r], <<"getLeads", Answer(ok)>>)
           leads == IF ok THEN Ids(getLeads(kvLeads, options)) ELSE <<>> IN
       req' = [req EXCEPT ![r] =
         IF options.metrics
         THEN [rq EXCEPT !.pc = "getMetrics", !.cur = Some(leads)]
         ELSE Respond(rq, ListResponse(leads, None))]
  /\ UNCHANGED <<env, kvLeads, kvEmail, nextId, now, last, sheet, runs>>

\* getMetrics: one more read of the whole hash.  A backend failure is caught
\* and reported as all-zero metrics.
LeadsGetMetrics(r) ==
  /\ req[r].kind = "leads" /\ req[r].pc = "getMetrics"
  /\ \E ok \in BOOLEAN :
       LET rq == Called(req[r], <<"getMetrics", Answer(ok)>>)
           metrics == IF ok THEN getMetrics(kvLeads) ELSE getMetrics(<<>>) IN
       req' = [req EXCEPT ![r] = Respond(rq, ListResponse(The(req[r].cur), Some(metrics)))]
  /\ UNCHANGED <<env, kvLeads, kvEmail, nextId, now, last, sheet, runs>>

\* ------------------------------------------------------------------ system

SheetPost(r) == SheetPostWhen(r, NumConc)

WooPost(r) == WooPostWhen(r, NumConc)

LeadsGet(r) == LeadsGetWhen(r, NumConc)

\* Requests are served concurrently: any request in flight may take a step.
Next ==
  \E r \in ConcSlots :
    \/ SheetPost(r)
    \/ SheetGetLeadByEmail(r)
    \/ SheetGetLeadRecord(r)
    \/ SheetSaveLead(r)
    \/ SheetSaveLeadIndex(r)
    \/ SheetAddContactToBrevo(r)
    \/ SheetUpdateLeadStatus(r)
    \/ SheetUpdateLeadStatusWrite(r)
    \/ WooPost(r)
    \/ WooMarkAsPurchased(r)
    \/ WooGetLeadByEmail(r)
    \/ WooGetLeadRecord(r)
    \/ WooUpdateLeadStatus(r)
    \/ WooUpdateLeadStatusWrite(r)
    \/ LeadsGet(r)
    \/ LeadsGetLeads(r)
    \/ LeadsGetMetrics(r)

Spec == Init /\ [][Next]_vars

SheetPostSeq(r) == SheetPostWhen(r, 1)

WooPostSeq(r) == WooPostWhen(r, 1)

LeadsGetSeq(r) == LeadsGetWhen(r, 1)

\* Requests are served one at a time: a request starts when none is in flight.
NextSeq ==
  \E r \in Slots :
    \/ SheetPostSeq(r)
    \/ SheetGetLeadByEmail(r)
    \/ SheetGetLeadRecord(r)
    \/ SheetSaveLead(r)
    \/ SheetSaveLeadIndex(r)
    \/ SheetAddContactToBrevo(r)
    \/ SheetUpdateLeadStatus(r)
    \/ SheetUpdateLeadStatusWrite(r)
    \/ WooPostSeq(r)
    \/ WooMarkAsPurchased(r)
    \/ WooGetLeadByEmail(r)
    \/ WooGetLeadRecord(r)
    \/ WooUpdateLeadStatus(r)
    \/ WooUpdateLeadStatusWrite(r)
    \/ LeadsGetSeq(r)
    \/ LeadsGetLeads(r)
    \/ LeadsGetMetrics(r)

SpecSeq == Init /\ [][NextSeq]_vars

\* ------------------------------- storage.ts: updateLeadStatus called directly

LeadStatuses == {"new", "subscribed", "purchased", "error"}

\* The additionalData a caller may pass: none, a contact id, a contact id that
\* is undefined, an order id.
AdditionalDatas ==
  { <<>>,
    [brevoContactId |-> Some(12345)],
    [brevoContactId |-> None],
    [woocommerceOrderId |-> Some(<<"7">>)] }

\* What a direct call of a storage function comes to: it throws, or it
\* returns a lead (None for null).
StoreResult(threw, lead) == [threw |-> threw, lead |-> lead]

\* updateLeadStatus(id, status, additionalData) is called, with the id of a
\* stored lead or with an id no lead has.
UpdateLeadStatusCall(r) ==
  /\ CanStart(r, 1)
  /\ \E id \in 1..(nextId + 1), status \in LeadStatuses, additionalData \in AdditionalDatas :
       /\ req' = [req EXCEPT ![r] =
                    [@ EXCEPT !.kind = "store", !.pc = "updateLeadStatus", !.lead = Some(id),
                              !.payload = Some([status |-> status,
                                                additionalData |-> additionalData])]]
       /\ last' = [slot |-> r, kind |-> "store", apiKey |-> None, signature |-> None,
                   body |-> id]
  /\ UNCHANGED <<env, kvLeads, kvEmail, nextId, now, sheet, runs>>

\* updateLeadStatus, the read: null (no write) when the id is unknown; a
\* backend failure is rethrown.
StoreUpdateLeadStatus(r) ==
  /\ req[r].kind = "store" /\ req[r].pc = "updateLeadStatus"
  /\ \E ok \in BOOLEAN :
       LET rq == Called(req[r], <<"kv.hget", Answer(ok)>>)
           leadJson == HGet(kvLeads, The(req[r].lead)) IN
       req' = [req EXCEPT ![r] =
         IF ~ok THEN Respond(rq, StoreResult(TRUE, None))
         ELSE IF leadJson = None THEN Respond(rq, StoreResult(FALSE, None))
         ELSE [rq EXCEPT !.pc = "updateLeadStatus_write", !.cur = leadJson]]
  /\ UNCHANGED <<env, kvLeads, kvEmail, nextId, now, last, sheet, runs>>

\* updateLeadStatus, the write of the lead as read, merged with the new data.
StoreUpdateLeadStatusWrite(r) ==
  /\ req[r].kind = "store" /\ req[r].pc = "updateLeadStatus_write"
  /\ \E ok \in BOOLEAN :
       LET p == The(req[r].payload)
           lead == The(req[r].cur)
           updatedLead == UpdatedLead(lead, p.status, p.additionalData)
           rq == Called(req[r], <<"kv.hset", Answer(ok)>>) IN
       IF ok
       THEN /\ kvLeads' = HSet(kvLeads, lead.id, updatedLead)
            /\ req' = [req EXCEPT ![r] = Respond(rq, StoreResult(FALSE, Some(updatedLead.id)))]
       ELSE /\ req' = [req EXCEPT ![r] = Respond(rq, StoreResult(TRUE, None))]
            /\ UNCHANGED kvLeads
  /\ UNCHANGED <<env, kvEmail, nextId, now, last, sheet, runs>>

\* The store's functions exercised one call at a time: lead intake creates
\* and updates leads, and updateLeadStatus is also called directly.
NextStore ==
  \E r \in Slots :
    \/ SheetPostSeq(r)
    \/ SheetGetLeadByEmail(r)
    \/ SheetGetLeadRecord(r)
    \/ SheetSaveLead(r)
    \/ SheetSaveLeadIndex(r)
    \/ SheetAddContactToBrevo(r)
    \/ SheetUpdateLeadStatus(r)
    \/ SheetUpdateLeadStatusWrite(r)
    \/ UpdateLeadStatusCall(r)
    \/ StoreUpdateLeadStatus(r)
    \/ StoreUpdateLeadStatusWrite(r)

SpecStore == Init /\ [][NextStore]_vars

\* ------------------------------- brevo.ts: addContactToBrevo called directly

\* TAG_TO_LIST_ID: types.ts declares it twice, each time for the LeadTag
\* declared with it.
TAG_TO_LIST_ID_A ==
  [t \in {"general", "programa-de", "eyaculacion-precoz", "youtube"} |->
     CASE t = "general" -> 16
       [] t = "programa-de" -> 9
       [] t = "eyaculacion-precoz" -> 20
       [] t = "youtube" -> 14]

TAG_TO_LIST_ID_B ==
  [t \in {"general", "reel-fitness", "reel-nutricion", "story-promo"} |->
     CASE t = "general" -> 1
       [] t = "reel-fitness" -> 2
       [] t = "reel-nutricion" -> 3
       [] t = "story-promo" -> 4]

\* The table the build carries is one of the two.
TagTables == {TAG_TO_LIST_ID_A, TAG_TO_LIST_ID_B}

NameAnaPaz == <<"A", "n", "a", " ", "P", "a", "z">>

\* The params addContactToBrevo is called with: tag is None when the caller
\* leaves it out.
AddContactParams ==
  [email : {EmailX}, name : {None, Some(NameAnaPaz)}, phone : {None},
   source : {None},
   tag : {None, Some("general"), Some("reel-fitness"), Some("reel-nutricion"),
          Some("story-promo"), Some("youtube"), Some("unknown-tag")}]

\* The places of the spaces in s.
Spaces(s) == {i \in 1..Len(s) : IsSpace(s[i])}

FirstSpace(s) == CHOOSE i \in Spaces(s) : \A j \in Spaces(s) : i <= j

\* name?.split(' ') || []: nameParts[0] and nameParts.slice(1).join(' ')
FirstName(name) ==
  IF name = None THEN <<>>
  ELSE IF Spaces(The(name)) = {} THEN The(name)
  ELSE SubSeq(The(name), 1, FirstSpace(The(name)) - 1)

LastName(name) ==
  IF name = None THEN <<>>
  ELSE IF Spaces(The(name)) = {} THEN <<>>
  ELSE SubSeq(The(name), FirstSpace(The(name)) + 1, Len(The(name)))

\* The CreateContact request addContactToBrevo builds: the tag defaults to
\* general only when it is undefined, and a tag the table does not hold
\* yields the list id undefined (None).
CreateContact(params, table) ==
  LET tag == IF params.tag = None THEN "general" ELSE The(params.tag)
      listId == IF tag \in DOMAIN table THEN Some(table[tag]) ELSE None IN
  [email |-> params.email,
   attributes |-> [FIRSTNAME |-> FirstName(params.name), LASTNAME |-> LastName(params.name),
                   PHONE |-> IF params.phone = None THEN <<>> ELSE The(params.phone),
                   SOURCE |-> IF params.source = None \/ params.source = Some(<<>>)
                              THEN SourceInstagram ELSE The(params.source),
                   TAG |-> tag, HAS_PURCHASED |-> FALSE],
   listIds |-> <<listId>>,
   updateEnabled |-> TRUE]

\* What the CRM backend may answer to createContact: as for lead intake, and
\* also another error with a message and an error without one.
CrmOutcomes ==
  BrevoCreateOutcomes \cup
    { [ok |-> FALSE, id |-> None, message |-> Some("Rate limit exceeded")],
      [ok |-> FALSE, id |-> None, message |-> None] }

\* What a direct call of addContactToBrevo comes to: the request it sent and
\* the result it returned.
CrmResult(request, result) == [request |-> request, result |-> result]

\* addContactToBrevo(params) is called: it builds the request.
AddContactToBrevoCall(r) ==
  /\ CanStart(r, 1)
  /\ \E params \in AddContactParams, table \in TagTables :
       /\ req' = [req EXCEPT ![r] =
                    [@ EXCEPT !.kind = "crm", !.pc = "createContact",
                              !.payload = Some([params |-> params, table |-> table]),
                              !.cur = Some(CreateContact(params, table))]]
       /\ last' = [slot |-> r, kind |-> "crm", apiKey |-> None, signature |-> None,
                   body |-> 0]
  /\ UNCHANGED <<env, kvLeads, kvEmail, nextId, now, sheet, runs>>

\* apiInstance.createContact(createContact) and what follows: the backend
\* answers, addContactToBrevo returns.
CrmCreateContact(r) ==
  /\ req[r].kind = "crm" /\ req[r].pc = "createContact"
  /\ \E outcome \in CrmOutcomes :
       LET rq == Called(req[r], <<"createContact", outcome>>) IN
       req' = [req EXCEPT ![r] =
                 [rq EXCEPT !.pc = "done",
                            !.resp = Some(CrmResult(The(req[r].cur),
                                                    addContactToBrevo(outcome))),
                            !.cur = None]]
  /\ UNCHANGED <<env, kvLeads, kvEmail, nextId, now, last, sheet, runs>>

\* The CRM connector exercised one call at a time.
NextCrm == \E r \in ConcSlots : AddContactToBrevoCall(r) \/ CrmCreateContact(r)

SpecCrm == Init /\ [][NextCrm]_vars

\* ------------------------- google-apps-script.js: the spreadsheet script

\* What an email cell may hold: an address, nothing, a text without '@'.
EmailCells == {EmailX, <<>>, EmailNoAt}

\* String.prototype.includes for a one-character string
Includes(s, ch) == \E i \in 1..Len(s) : s[i] = ch

\* sheet.getLastRow(): row 1 is the header, the data rows follow it.
getLastRow == 1 + Cardinality(DOMAIN sheet)

serverVars == <<env, kvLeads, kvEmail, nextId, now, req, last>>

\* A row is added to the spreadsheet (by the form integration or by hand),
\* with its status cell empty.
InsertRow ==
  /\ Cardinality(DOMAIN sheet) < MaxRows
  /\ \E email \in EmailCells :
       sheet' = HSet(sheet, getLastRow + 1, [email |-> email, status |-> ""])
  /\ UNCHANGED <<runs, serverVars>>

\* The email cell of a row is edited by hand.
EditEmail ==
  /\ \E row \in DOMAIN sheet, email \in EmailCells :
       /\ sheet[row].email # email
       /\ sheet' = [sheet EXCEPT ![row].email = email]
  /\ UNCHANGED <<runs, serverVars>>

\* onEdit(e): e is None when there is no event (or no range), else it names
\* the row edited; the header row is skipped.
OnEdit(k) ==
  /\ runs[k].pc = "idle"
  /\ \E e \in {None} \cup {Some(row) : row \in 1..getLastRow} :
       /\ e # None
       /\ The(e) > 1
       /\ runs' = [runs EXCEPT ![k] = [IdleRun EXCEPT !.fn = "onEdit", !.pc = "processRow",
                                                       !.row = The(e)]]
  /\ UNCHANGED <<sheet, serverVars>>

\* processAllPending(), called by onChange(e) for every kind of change and
\* from the menu: it reads the last row once and starts at row 2.
ProcessAllPending(k) ==
  /\ runs[k].pc = "idle"
  /\ runs' = [runs EXCEPT ![k] = [IdleRun EXCEPT !.fn = "processAllPending", !.pc = "loop",
                                                  !.row = 2, !.lastRow = getLastRow]]
  /\ UNCHANGED <<sheet, serverVars>>

\* processAllPending, one turn of the loop: the status of the row is read;
\* the row is processed when the status is empty, ERROR or FAILED.
ProcessAllPendingLoop(k) ==
  /\ runs[k].pc = "loop"
  /\ runs' = [runs EXCEPT ![k] =
       IF @.row > @.lastRow THEN IdleRun
       ELSE IF sheet[@.row].status \in {"", "ERROR", "FAILED"}
            THEN [@ EXCEPT !.pc = "processRow"]
            ELSE [@ EXCEPT !.row = @ + 1]]
  /\ UNCHANGED <<sheet, serverVars>>

\* processRow returns: onEdit ends, processAllPending goes on to the next row.
Return(run) ==
  IF run.fn = "processAllPending"
  THEN [run EXCEPT !.pc = "loop", !.row = @ + 1, !.value = ""]
  ELSE IdleRun

\* processRow, the status cell is read: a row that is SUCCESS or SKIPPED is
\* left alone.
ProcessRowGetStatus(k) ==
  /\ runs[k].pc = "processRow"
  /\ runs' = [runs EXCEPT ![k] =
       IF sheet[@.row].status \in {"SUCCESS", "SKIPPED"} THEN Return(@)
       ELSE [@ EXCEPT !.pc = "getEmail"]]
  /\ UNCHANGED <<sheet, serverVars>>

\* processRow, the email cell is read and validated: without an '@' the row
\* is to be marked SKIPPED.
ProcessRowGetEmail(k) ==
  /\ runs[k].pc = "getEmail"
  /\ runs' = [runs EXCEPT ![k] =
       IF sheet[@.row].email = <<>> \/ ~Includes(sheet[@.row].email, "@")
       THEN [@ EXCEPT !.pc = "setValue", !.value = "SKIPPED"]
       ELSE [@ EXCEPT !.pc = "fetch"]]
  /\ UNCHANGED <<sheet, serverVars>>

\* What comes of UrlFetchApp.fetch and JSON.parse of the answer: the webhook
\* answers success true or false, or one of the two calls throws.
FetchOutcomes == {"success", "failure", "throws"}

StatusFor(outcome) ==
  CASE outcome = "success" -> "SUCCESS"
    [] outcome = "failure" -> "FAILED"
    [] OTHER -> "ERROR"

\* processRow, the row is posted to the lead-intake webhook.
ProcessRowFetch(k) ==
  /\ runs[k].pc = "fetch"
  /\ \E outcome \in FetchOutcomes :
       runs' = [runs EXCEPT ![k] = [@ EXCEPT !.pc = "setValue", !.value = StatusFor(outcome)]]
  /\ UNCHANGED <<sheet, serverVars>>

\* processRow, statusCell.setValue: the status is written to the row.
ProcessRowSetValue(k) ==
  /\ runs[k].pc = "setValue"
  /\ sheet' = [sheet EXCEPT ![runs[k].row].status = runs[k].value]
  /\ runs' = [runs EXCEPT ![k] = Return(@)]
  /\ UNCHANGED serverVars

\* The script's executions are started by the triggers and the menu at any
\* time, and overlap: each takes its steps at its calls to the spreadsheet
\* and to the webhook.
NextScript ==
  \/ InsertRow
  \/ EditEmail
  \/ \E k \in Runs :
       \/ OnEdit(k)
       \/ ProcessAllPending(k)
       \/ ProcessAllPendingLoop(k)
       \/ ProcessRowGetStatus(k)
       \/ ProcessRowGetEmail(k)
       \/ ProcessRowFetch(k)
       \/ ProcessRowSetValue(k)

SpecScript == Init /\ [][NextScript]_vars

\* ------------------------------------------------------------------ claims

\* Request r is received in this step.
Started(r) == req[r].pc = "idle" /\ req'[r].pc # "idle"

\* Request r returns its response in this step.
Finished(r) == req[r].pc # "done" /\ req'[r].pc = "done"

\* This step is a step of a lead-intake request.
SheetStep == \E r \in Slots : req'[r] # req[r] /\ req'[r].kind = "sheet"

HasCalled(rq, fn) == \E i \in 1..Len(rq.calls) : rq.calls[i][1] = fn

LeadsOf(email) == {id \in DOMAIN kvLeads : kvLeads[id].email = email}

\* C1: once a stored lead's status is purchased, it is purchased in every later
\* state, whatever lead-intake and purchase requests follow.
C1_PurchasedStaysPurchased ==
  [][\A id \in DOMAIN kvLeads :
       kvLeads[id].status = "purchased" => kvLeads'[id].status = "purchased"]_vars

\* C2: in every reachable state, under any interleaving of concurrent requests,
\* the store holds at most one lead record per email.
C2_OneLeadPerEmail ==
  \A i, j \in DOMAIN kvLeads : kvLeads[i].email = kvLeads[j].email => i = j

\* C3: two lead-intake requests run one after the other with the same email
\* and both answered with a lead id leave exactly one stored lead for that
\* email, and the two lead ids are equal.
C3_SecondRunReusesLead ==
  \A r1, r2 \in Slots :
    ( /\ r1 < r2
      /\ req[r1].kind = "sheet" /\ req[r1].pc = "done" /\ req[r1].payload # None
      /\ req[r2].kind = "sheet" /\ req[r2].pc = "done" /\ req[r2].payload # None
      /\ The(req[r1].payload).email = The(req[r2].payload).email
      /\ The(req[r1].resp).leadId # None
      /\ The(req[r2].resp).leadId # None )
    => /\ The(req[r2].resp).leadId = The(req[r1].resp).leadId
       /\ Cardinality(LeadsOf(The(req[r1].payload).email)) = 1

\* C4: lead intake moves a lead to subscribed or error only from new: a
\* lead-intake step leaves the status of a lead that is subscribed or error as
\* it is.
C4_OnlyFromNew ==
  [][\A id \in DOMAIN kvLeads :
       (SheetStep /\ kvLeads[id].status \in {"subscribed", "error"})
       => kvLeads'[id].status = kvLeads[id].status]_vars

\* C5: every validly signed, well-formed completed order is answered 200,
\* whatever the CRM and the storage backend do.
C5_CompletedOrderIs200 ==
  \A r \in Slots :
    (req[r].kind = "woo" /\ req[r].pc = "done" /\ req[r].payload # None)
    => The(req[r].resp).status = 200

\* C6: when the purchase handler answers 200 for a completed order, every
\* stored lead of the order's normalized billing email is purchased and
\* carries the order id as a string.
C6_ProcessedLeadIsPurchased ==
  [][\A r \in Slots :
       ( /\ req[r].kind = "woo" /\ req[r].payload # None
         /\ Finished(r) /\ The(req'[r].resp).status = 200 )
       => \A id \in DOMAIN kvLeads' :
            kvLeads'[id].email = The(req[r].payload).email
            => /\ kvLeads'[id].status = "purchased"
               /\ kvLeads'[id].woocommerceOrderId = Some(The(req[r].payload).orderId)]_vars

\* The purchase bodies that are well-formed orders, and their status.
WooWellFormed == {1, 2, 3, 4, 5, 13}

WooStatusOf(b) == The(WooBodies[b].json).o.status.a

\* The request received in this step (now in last') is a purchase request
\* with the right signature for its body.
ValidlySigned ==
  /\ last'.kind = "woo"
  /\ env.WOOCOMMERCE_WEBHOOK_SECRET # None
  /\ last'.signature =
       Some(HmacSha256Base64(The(env.WOOCOMMERCE_WEBHOOK_SECRET), WooBodies[last'.body].raw))

\* The request answers in the step it is received in, without any call to the
\* CRM or the store, and the store is as before.
AnsweredAtOnce(r, status) ==
  /\ req'[r].pc = "done"
  /\ The(req'[r].resp).status = status
  /\ req'[r].calls = <<>>
  /\ UNCHANGED <<kvLeads, kvEmail>>

\* C7: a validly signed, well-formed order whose status is not exactly
\* "completed" is answered 200 with a message that contains the status, with
\* no CRM or store call, and the store is unchanged.
C7_NotCompletedIsSkipped ==
  [][\A r \in Slots :
       ( /\ Started(r) /\ last'.slot = r /\ ValidlySigned
         /\ last'.body \in WooWellFormed
         /\ WooStatusOf(last'.body) # "completed" )
       => /\ AnsweredAtOnce(r, 200)
          /\ The(req'[r].resp).message.status = Some(WooStatusOf(last'.body))]_vars

\* C7 witness: the order whose status is "Completed" has been skipped.
C7_Witness ==
  \E r \in Slots :
    /\ last.slot = r /\ last.kind = "woo" /\ last.body = 4
    /\ req[r].pc = "done"
    /\ The(req[r].resp).status = 200
    /\ The(req[r].resp).message.status = Some("Completed")

\* C8: with the secret configured, a purchase request whose signature header
\* is missing or is not the HMAC of the raw body under the secret is answered
\* 401, by a response and not an exception, with no CRM or store call.
C8_BadSignatureIs401 ==
  [][\A r \in Slots :
       ( /\ Started(r) /\ last'.slot = r /\ last'.kind = "woo"
         /\ env.WOOCOMMERCE_WEBHOOK_SECRET # None
         /\ ~ValidlySigned )
       => AnsweredAtOnce(r, 401)]_vars

\* C8 witness: a completed order signed with a signature that is longer than
\* the right one has been answered 401.
C8_Witness ==
  \E r \in Slots :
    /\ last.slot = r /\ last.kind = "woo" /\ last.body = 1
    /\ last.signature = Some(HmacSha256Base64(WooSecret, WooBodies[1].raw) \o <<"=">>)
    /\ req[r].pc = "done"
    /\ The(req[r].resp).status = 401

\* C9: a lead-intake POST or a lead-listing GET whose x-api-key header is
\* missing or differs from the configured secret is answered 401, with no
\* store read, store write or CRM call.
C9_BadApiKeyIs401 ==
  [][\A r \in Slots :
       ( /\ Started(r) /\ last'.slot = r /\ last'.kind \in {"sheet", "leads"}
         /\ (last'.apiKey = None \/ last'.apiKey # env.API_SECRET_KEY) )
       => AnsweredAtOnce(r, 401)]_vars

\* C9 witness: a listing request without a key and, before it, an intake
\* request have both been answered 401.
C9_Witness ==
  \E r1, r2 \in Slots :
    /\ req[r1].kind = "sheet" /\ req[r1].pc = "done" /\ The(req[r1].resp).status = 401
    /\ last.slot = r2 /\ last.kind = "leads" /\ last.apiKey = None
    /\ req[r2].pc = "done" /\ The(req[r2].resp).status = 401

\* What the body of an intake request holds, read off the body itself.
SheetFields(b) ==
  IF SheetBodies[b].json # None /\ The(SheetBodies[b].json).t = "object"
  THEN The(SheetBodies[b].json).o ELSE <<>>

HasStringEmail(b) ==
  "email" \in DOMAIN SheetFields(b) /\ SheetFields(b).email.t = "string"

TagPresentAndInvalid(b) ==
  /\ "tag" \in DOMAIN SheetFields(b)
  /\ ~(SheetFields(b).tag.t = "atom" /\ SheetFields(b).tag.a \in VALID_TAGS)

\* C10: a lead-intake request with a valid API key whose body has no string
\* email, or an email that does not match the address pattern, or a tag that
\* is present and not a declared tag value is answered 400 with no store or
\* CRM call: a present, invalid tag is not replaced by the default.
C10_InvalidPayloadIs400 ==
  [][\A r \in Slots :
       ( /\ Started(r) /\ last'.slot = r /\ last'.kind = "sheet"
         /\ last'.apiKey # None /\ last'.apiKey = env.API_SECRET_KEY
         /\ IF HasStringEmail(last'.body)
            THEN \/ ~validateEmail(SheetFields(last'.body).email.c)
                 \/ TagPresentAndInvalid(last'.body)
            ELSE TRUE )
       => AnsweredAtOnce(r, 400)]_vars

\* The lead records stored under the email of request rq.
StoredFor(rq) == LeadsOf(The(rq.payload).email)

\* C11: in every lead-intake run that reaches the CRM call, a lead record for
\* the request's email is stored when the call is issued and from then on, so
\* a lead row exists after a failed CRM call.
C11_LeadStoredBeforeCrm ==
  \A r \in Slots :
    ( /\ req[r].kind = "sheet"
      /\ \/ req[r].pc = "addContactToBrevo"
         \/ HasCalled(req[r], "addContactToBrevo") )
    => StoredFor(req[r]) # {}

\* C11 witness: an intake run that created its lead has been answered 500
\* with the CRM's error, and the lead is stored.
C11_Witness ==
  \E r \in Slots :
    /\ req[r].kind = "sheet" /\ req[r].pc = "done"
    /\ HasCalled(req[r], "saveLead")
    /\ HasCalled(req[r], "addContactToBrevo")
    /\ The(req[r].resp).status = 500
    /\ The(req[r].resp).error = Some("API Error")
    /\ StoredFor(req[r]) # {}

\* Request r is a lead-intake run that returns in this step, after a CRM
\* call that reported failure.
ReturnsAfterCrmFailure(r) ==
  /\ req[r].kind = "sheet" /\ Finished(r)
  /\ req[r].brevo # None /\ ~The(req[r].brevo).success

\* C12: when the CRM call reports failure, the stored lead's status becomes
\* error and the response is 500 with the connector's error message and the
\* lead id.
C12_CrmFailureIsError ==
  [][\A r \in Slots :
       ReturnsAfterCrmFailure(r)
       => /\ The(req'[r].resp).status = 500
          /\ The(req'[r].resp).error = The(req[r].brevo).error
          /\ The(req'[r].resp).leadId = req[r].lead
          /\ kvLeads'[The(req[r].lead)].status = "error"]_vars

\* C12 as amended: when the CRM call reports failure the response is 500;
\* it carries the connector's error message and the lead id, and the stored
\* lead's status is then error, unless the storage backend fails while the
\* status is recorded: then the response is the internal error without a lead
\* id and the store is as before.
C12_CrmFailureIsErrorUnlessStoreFails ==
  [][\A r \in Slots :
       ReturnsAfterCrmFailure(r)
       => /\ The(req'[r].resp).status = 500
          /\ IF The(req'[r].resp).leadId # None
             THEN /\ The(req'[r].resp).error = The(req[r].brevo).error
                  /\ The(req'[r].resp).leadId = req[r].lead
                  /\ kvLeads'[The(req[r].lead)].status = "error"
             ELSE /\ The(req'[r].resp) = InternalError
                  /\ UNCHANGED kvLeads]_vars

\* C12 witness: a lead that was subscribed (it carries a contact id) is error
\* after a later intake run that found it stored and whose CRM call failed.
C12_Witness ==
  \E r \in Slots :
    /\ req[r].kind = "sheet" /\ req[r].pc = "done"
    /\ ~HasCalled(req[r], "saveLead")
    /\ The(req[r].resp).status = 500
    /\ The(req[r].resp).error = Some("API Error")
    /\ The(req[r].resp).leadId # None
    /\ kvLeads[The(The(req[r].resp).leadId)].status = "error"
    /\ kvLeads[The(The(req[r].resp).leadId)].brevoContactId # None

\* C13: whenever lead intake responds 200, the response carries the id of
\* the stored lead the email index names for the request's email, that lead's
\* status is subscribed, and it carries the contact id the CRM returned, if
\* the CRM returned one.
C13_OkMeansSubscribed ==
  [][\A r \in Slots :
       ( /\ req[r].kind = "sheet" /\ Finished(r)
         /\ The(req'[r].resp).status = 200 )
       => LET email == The(req[r].payload).email
              leadId == The(req'[r].resp).leadId IN
          /\ leadId # None
          /\ The(leadId) \in DOMAIN kvLeads'
          /\ HGet(kvEmail', email) = leadId
          /\ kvLeads'[The(leadId)].email = email
          /\ kvLeads'[The(leadId)].status = "subscribed"
          /\ The(req[r].brevo).contactId # None
             => kvLeads'[The(leadId)].brevoContactId = The(req[r].brevo).contactId]_vars

\* C13 witness: a second intake run for a stored lead has been answered 200,
\* and the lead is subscribed with the contact id 12345.
C13_Witness ==
  \E r \in Slots :
    /\ req[r].kind = "sheet" /\ req[r].pc = "done"
    /\ ~HasCalled(req[r], "saveLead")
    /\ The(req[r].resp).status = 200
    /\ kvLeads[The(The(req[r].resp).leadId)].status = "subscribed"
    /\ kvLeads[The(The(req[r].resp).leadId)].brevoContactId = Some(12345)

\* The completed orders among the purchase bodies, and what the handler is
\* to pass on for each: the billing email lowercased and trimmed, the order id
\* in decimal.
WooCompleted == {1, 2, 13}

WooExpected(b) ==
  IF b \in {1, 13} THEN [email |-> EmailA, orderId |-> <<"7">>]
  ELSE [email |-> EmailX, orderId |-> <<"1", "2">>]

\* C14: a validly signed, well-formed completed order is answered 200 with a
\* message that contains the order id, after one call of the CRM's
\* markAsPurchased and then one call of the store's markLeadAsPurchased, both
\* with the lowercased trimmed billing email and the order id in decimal.
C14_CompletedOrderIsProcessed ==
  [][\A r \in Slots :
       ( /\ Finished(r) /\ last'.slot = r /\ ValidlySigned
         /\ last'.body \in WooCompleted )
       => LET e == WooExpected(last'.body) IN
          /\ The(req'[r].resp).status = 200
          /\ The(req'[r].resp).message.orderId = Some(e.orderId)
          /\ req'[r].calls = << <<"markAsPurchased", e.email, e.orderId>>,
                                <<"markLeadAsPurchased", e.email, e.orderId>> >>]_vars

\* The intake bodies with a well-formed email and a tag of the declared set
\* general, reel-fitness, reel-nutricion, story-promo or no tag, and what the
\* handler is to pass to the CRM for each.
SheetDeclared == {1, 3, 5}

SheetExpected(b) ==
  [email |-> IF b = 5 THEN EmailA ELSE EmailX, name |-> None, phone |-> None,
   source |-> SourceInstagram, tag |-> IF b = 5 THEN "reel-fitness" ELSE "general"]

CrmCalls(rq) == {i \in 1..Len(rq.calls) : rq.calls[i][1] = "addContactToBrevo"}

\* C15: a lead-intake request with a valid API key, a well-formed email and a
\* tag of the declared set (or none) calls the CRM once, with the lowercased
\* email, the source instagram when none is given and the tag submitted
\* (general when absent), and is answered 200 with the lead id when the CRM
\* succeeds; a run that the storage backend fails is left aside.
C15_DeclaredTagReachesCrm ==
  [][\A r \in Slots :
       ( /\ Finished(r) /\ last'.slot = r /\ last'.kind = "sheet"
         /\ validateApiKey(last'.apiKey)
         /\ last'.body \in SheetDeclared
         /\ The(req'[r].resp) # InternalError )
       => /\ Cardinality(CrmCalls(req'[r])) = 1
          /\ \A i \in CrmCalls(req'[r]) : req'[r].calls[i][2] = SheetExpected(last'.body)
          /\ IF req[r].brevo # None
             THEN The(req[r].brevo).success
                  => /\ The(req'[r].resp).status = 200
                     /\ The(req'[r].resp).leadId # None
             ELSE TRUE]_vars

RECURSIVE SumOver(_, _)
SumOver(f, S) ==
  IF S = {} THEN 0
  ELSE LET k == CHOOSE x \in S : TRUE IN f[k] + SumOver(f, S \ {k})

\* C17: in every store state reachable through lead intake, the per-tag
\* counts of the metrics add up to totalLeads: every stored lead is counted
\* under exactly one tag.
C17_TagCountsSumToTotal ==
  LET m == getMetrics(kvLeads) IN
  SumOver(m.leadsByTag, DOMAIN m.leadsByTag) = m.totalLeads

\* The options list is asked with: a status filter, a tag filter, a limit
\* and an offset.
PageLimits == {0, 1, 2}

PageOffsets == {0, 1, 2}

PageOptions ==
  [status : {None, Some("subscribed")}, tag : {None, Some("general")},
   limit : PageLimits, offset : PageOffsets, metrics : {FALSE}]

\* The stored leads that match the filters, and the place of one of them
\* among these when they are sorted by createdAt descending, counted from 0
\* (leads created at the same time stay in the order of insertion).
Matching(options) ==
  {id \in DOMAIN kvLeads :
     /\ options.status # None => kvLeads[id].status = The(options.status)
     /\ options.tag # None => kvLeads[id].tag = The(options.tag)}

Position(id, M) ==
  Cardinality({j \in M : \/ kvLeads[j].createdAt > kvLeads[id].createdAt
                          \/ (kvLeads[j].createdAt = kvLeads[id].createdAt /\ j < id)})

\* The ids at positions [offset, offset + limit) of the matching leads.
ExpectedPage(options) ==
  LET M == Matching(options)
      rest == Cardinality(M) - options.offset
      n == IF rest < 0 THEN 0 ELSE Min(options.limit, rest) IN
  [k \in 1..n |-> CHOOSE id \in M : Position(id, M) = options.offset + k - 1]

\* C18: for every status and tag filter, every limit >= 0 and every
\* offset >= 0, getLeads returns the elements at positions
\* [offset, offset + limit) of the stored leads that match the filters, sorted
\* by createdAt descending.
C18_PageIsSliceOfSorted ==
  \A options \in PageOptions :
    Ids(getLeads(kvLeads, options)) = ExpectedPage(options)

\* The storage backend failed during a read of listing request rq.
BackendFailed(rq) == \E i \in 1..Len(rq.calls) : rq.calls[i][2] = Answer(FALSE)

\* C19: the lead-listing endpoint responds 500 whenever the storage backend
\* fails while the leads or the metrics are loaded.
C19_ListingFailureIs500 ==
  \A r \in Slots :
    (req[r].kind = "leads" /\ req[r].pc = "done" /\ BackendFailed(req[r]))
    => The(req[r].resp).status = 500

\* The email has no index entry, or the entry names a record that is missing.
Absent(email) ==
  IF HGet(kvEmail, email) = None THEN TRUE
  ELSE HGet(kvLeads, The(HGet(kvEmail, email))) = None

\* Request r is in getLeadByEmail, and getLeadByEmail returns null in this
\* step: lead intake goes on to create a lead, the purchase handler answers
\* without marking one.
LookupReturnsNull(r) ==
  /\ req[r].pc \in {"getLeadByEmail", "getLeadByEmail_record"}
  /\ \/ req[r].kind = "sheet" /\ req'[r].pc = "saveLead"
     \/ req[r].kind = "woo" /\ req'[r].pc = "done"

\* C20: getLeadByEmail returns null only when the email has no index entry
\* or the entry's record is missing; a backend failure is not reported as
\* null, so lead intake never takes an unreachable backend for a missing lead.
C20_NullOnlyWhenAbsent ==
  [][\A r \in Slots :
       LookupReturnsNull(r) => Absent(The(req[r].payload).email)]_vars

\* The stored lead records whose email has no entry in the email index.
RecordsWithoutIndex == {id \in DOMAIN kvLeads : kvLeads[id].email \notin DOMAIN kvEmail}

\* Request r is a lead-intake run that ended in saveLead: the storage backend
\* failed at the write of the record or at the write of the index entry.
CreateFailed(rq) ==
  /\ rq.kind = "sheet" /\ rq.pc = "done"
  /\ rq.calls # <<>> /\ rq.calls[Len(rq.calls)][1] = "saveLead"

\* C21: when create has failed at one of its two backend writes and no
\* request is in flight, the store holds no lead record without an index
\* entry for its email.
C21_FailedCreateLeavesNoUnindexedRecord ==
  (InFlight = {} /\ \E r \in Slots : CreateFailed(req[r])) => RecordsWithoutIndex = {}

\* The status and the additional data request r passes to updateLeadStatus.
StatusPassed(rq) ==
  IF rq.kind = "store" THEN The(rq.payload).status ELSE SheetStatus(The(rq.brevo))

DataPassed(rq) ==
  IF rq.kind = "store" THEN The(rq.payload).additionalData
  ELSE SheetAdditionalData(The(rq.brevo))

\* Request r is in updateLeadStatus, which returns (does not throw) in this step.
UpdateReturns(r) ==
  /\ req[r].pc \in {"updateLeadStatus", "updateLeadStatus_write"}
  /\ Finished(r)
  /\ IF req[r].kind = "store" THEN ~The(req'[r].resp).threw
     ELSE The(req'[r].resp) # InternalError

\* A step of updateLeadStatus on the stored lead id changes nothing but the
\* status and the fields of the additional data of that lead; when it returns,
\* the lead has the status and the additional data passed.
UpdateFrame(r) ==
  LET id == The(req[r].lead)
      data == DataPassed(req[r]) IN
  /\ kvEmail' = kvEmail
  /\ DOMAIN kvLeads' = DOMAIN kvLeads
  /\ \A other \in DOMAIN kvLeads \ {id} : kvLeads'[other] = kvLeads[other]
  /\ \A k \in DOMAIN kvLeads[id] \ ({"status"} \cup DOMAIN data) :
       kvLeads'[id][k] = kvLeads[id][k]
  /\ UpdateReturns(r)
     => /\ kvLeads'[id].status = StatusPassed(req[r])
        /\ \A k \in DOMAIN data : kvLeads'[id][k] = data[k]

\* updateLeadStatus is called directly with an id no lead has, and ends.
UnknownIdCallEnds(r) ==
  /\ req[r].kind = "store" /\ req[r].pc = "updateLeadStatus"
  /\ The(req[r].lead) \notin DOMAIN kvLeads
  /\ Finished(r)

\* C22: updateLeadStatus on a known id changes only the status and the
\* additional-data fields of that one lead and leaves its other fields, every
\* other lead and the email index unchanged; on an unknown id it returns null
\* without raising and changes nothing.
C22_UpdateChangesOnlyStatusAndPatch ==
  [][\A r \in Slots :
       /\ (req[r].pc \in {"updateLeadStatus", "updateLeadStatus_write"}
           /\ req'[r] # req[r] /\ The(req[r].lead) \in DOMAIN kvLeads)
          => UpdateFrame(r)
       /\ UnknownIdCallEnds(r)
          => /\ The(req'[r].resp) = StoreResult(FALSE, None)
             /\ UNCHANGED <<kvLeads, kvEmail>>]_vars

\* C22 as amended: as above, except that on an unknown id updateLeadStatus
\* returns null without raising when the storage backend answers the read,
\* and raises the backend's error when the read fails; either way it changes
\* nothing.
C22_UpdateChangesOnlyStatusAndPatchUnlessReadFails ==
  [][\A r \in Slots :
       /\ (req[r].pc \in {"updateLeadStatus", "updateLeadStatus_write"}
           /\ req'[r] # req[r] /\ The(req[r].lead) \in DOMAIN kvLeads)
          => UpdateFrame(r)
       /\ UnknownIdCallEnds(r)
          => /\ The(req'[r].resp) =
                  IF BackendFailed(req'[r]) THEN StoreResult(TRUE, None)
                  ELSE StoreResult(FALSE, None)
             /\ UNCHANGED <<kvLeads, kvEmail>>]_vars

\* C22 witness: a direct call with an unknown id has returned null, and a
\* direct call on a stored lead has returned it, purchased and with the order
\* id passed.
C22_Witness ==
  \E r1, r2 \in Slots :
    /\ req[r1].kind = "store" /\ req[r1].pc = "done"
    /\ The(req[r1].lead) \notin DOMAIN kvLeads
    /\ The(req[r1].resp) = StoreResult(FALSE, None)
    /\ req[r2].kind = "store" /\ req[r2].pc = "done"
    /\ The(req[r2].resp).lead # None
    /\ kvLeads[The(The(req[r2].resp).lead)].status = "purchased"
    /\ kvLeads[The(The(req[r2].resp).lead)].woocommerceOrderId = Some(<<"7">>)

\* The purchase bodies that are not parseable JSON or lack a numeric id, a
\* string status or a billing object with a string email; the first four
\* carry the status completed.
WooMalformed == {6, 7, 8, 9, 10, 11, 12}

\* C23: with a valid signature, a purchase body that is not parseable JSON or
\* that lacks a numeric id, a string status or a billing object with a string
\* email is answered 400, with no CRM or store call, also when its status is
\* completed.
C23_MalformedOrderIs400 ==
  [][\A r \in Slots :
       ( /\ Started(r) /\ last'.slot = r /\ ValidlySigned
         /\ last'.body \in WooMalformed )
       => AnsweredAtOnce(r, 400)]_vars

\* C23 witness: a validly signed order with status completed and a string
\* for an id has been answered 400 'Invalid order data'.
C23_Witness ==
  \E r \in Slots :
    /\ last.slot = r /\ last.kind = "woo" /\ last.body = 6
    /\ last.signature = Some(HmacSha256Base64(WooSecret, WooBodies[6].raw))
    /\ req[r].pc = "done" /\ req[r].calls = <<>>
    /\ The(req[r].resp).status = 400
    /\ The(req[r].resp).message = Msg("Invalid order data")

\* What the backend answered to the createContact of direct call rq.
OutcomeOf(rq) == rq.calls[Len(rq.calls)][2]

\* C24: addContactToBrevo reports success when the backend creates or updates
\* the contact and when it rejects the call with the error that the contact
\* already exists; for every other backend error it reports success false
\* with the backend's message unchanged.  It returns a result in every case.
C24_AlreadyExistsIsSuccess ==
  \A r \in ConcSlots :
    (req[r].kind = "crm" /\ req[r].pc = "done")
    => LET outcome == OutcomeOf(req[r])
           result == The(req[r].resp).result IN
       IF outcome.ok \/ outcome.message = Some("Contact already exist")
       THEN result.success /\ result.error = None
       ELSE /\ ~result.success
            /\ result.error # None
            /\ outcome.message # None => result.error = outcome.message

\* C24 witness: one direct call was rejected because the contact exists and
\* reported success, another was rejected for the rate limit and reported
\* failure with that message.
C24_Witness ==
  \E r1, r2 \in ConcSlots :
    /\ req[r1].kind = "crm" /\ req[r1].pc = "done"
    /\ OutcomeOf(req[r1]).message = Some("Contact already exist")
    /\ The(req[r1].resp).result.success
    /\ req[r2].kind = "crm" /\ req[r2].pc = "done"
    /\ The(req[r2].resp).result = [success |-> FALSE, contactId |-> None,
                                   error |-> Some("Rate limit exceeded")]

\* The list the contact is to be assigned to for a tag: the table of the
\* connector's tests, and the general entry's list for any other tag.
ExpectedListId(tag) ==
  CASE tag = "general" -> 1
    [] tag = "reel-fitness" -> 2
    [] tag = "reel-nutricion" -> 3
    [] tag = "story-promo" -> 4
    [] OTHER -> 1

\* C25: addContactToBrevo assigns the contact to exactly one list, chosen from
\* the tag by the table general 1, reel-fitness 2, reel-nutricion 3,
\* story-promo 4, and to the general entry's list for a tag that is not in
\* the table (or is left out).
C25_ListChosenFromTag ==
  \A r \in ConcSlots :
    (req[r].kind = "crm" /\ req[r].pc = "done")
    => LET params == The(req[r].payload).params
           listIds == The(req[r].resp).request.listIds
           tag == IF params.tag = None THEN "general" ELSE The(params.tag) IN
       /\ Len(listIds) = 1
       /\ listIds[1] = Some(ExpectedListId(tag))

\* This step is a step of a purchase request that passed validation, for an
\* order whose billing email no stored lead has.
PurchaseStepWithoutLead(r) ==
  /\ req[r].kind = "woo" /\ req'[r] # req[r]
  /\ LeadsOf(The(req[r].payload).email) = {}

\* C26: no step removes a stored lead or an email-index entry; only a step
\* of lead intake adds a lead; and a completed purchase for an email that no
\* stored lead has leaves the store unchanged and is answered 200.
C26_LeadsAreNeverRemoved ==
  [][/\ DOMAIN kvLeads \subseteq DOMAIN kvLeads'
     /\ DOMAIN kvEmail \subseteq DOMAIN kvEmail'
     /\ DOMAIN kvLeads' # DOMAIN kvLeads => SheetStep
     /\ \A r \in Slots :
          PurchaseStepWithoutLead(r)
          => /\ UNCHANGED <<kvLeads, kvEmail>>
             /\ Finished(r) => The(req'[r].resp).status = 200]_vars

\* C26 witness: a completed purchase for an email that no stored lead has
\* has been answered 200 after its CRM and store calls, while the store holds
\* another email's lead and its index entry.
C26_Witness ==
  \E r \in Slots :
    /\ req[r].kind = "woo" /\ req[r].pc = "done" /\ req[r].payload # None
    /\ HasCalled(req[r], "markLeadAsPurchased")
    /\ The(req[r].resp).status = 200
    /\ LeadsOf(The(req[r].payload).email) = {}
    /\ DOMAIN kvLeads # {} /\ DOMAIN kvEmail # {}

\* a and b are the same but for the case of their letters.
SameIgnoringCase(a, b) ==
  /\ Len(a) = Len(b)
  /\ \A i \in 1..Len(a) : LowerChar(a[i]) = LowerChar(b[i])

\* The stored leads (after this step) whose email is email but for letter case.
LeadsMatching(email) ==
  {id \in DOMAIN kvLeads' : SameIgnoringCase(kvLeads'[id].email, email)}

\* The email as the request received last carries it: the email field of an
\* intake body, the billing email of an order.
RawEmail ==
  IF last'.kind = "sheet" THEN SheetFields(last'.body).email.c
  ELSE The(WooBodies[last'.body].json).o.billing.o.email.c

\* C27: email matching ignores letter case.  When a lead-intake run that
\* passed validation ends, at most one stored lead has the request's email
\* but for letter case, and it is the lead the response names; when a
\* completed purchase is answered 200, every stored lead that has the billing
\* email but for letter case is purchased and carries the order id.
C27_EmailMatchIgnoresCase ==
  [][\A r \in Slots :
       (Finished(r) /\ last'.slot = r /\ req[r].payload # None)
       => /\ req[r].kind = "sheet"
             => /\ Cardinality(LeadsMatching(RawEmail)) <= 1
                /\ The(req'[r].resp).leadId # None
                   => LeadsMatching(RawEmail) = The(req'[r].resp).leadId
          /\ (req[r].kind = "woo" /\ The(req'[r].resp).status = 200)
             => \A id \in LeadsMatching(RawEmail) :
                  /\ kvLeads'[id].status = "purchased"
                  /\ kvLeads'[id].woocommerceOrderId = Some(The(req[r].payload).orderId)]_vars

\* C28: once a stored lead carries a CRM contact id, it carries one in every
\* later state: no lead-intake or purchase step removes or clears it, also
\* not a lead-intake run in which the CRM reports success without returning a
\* contact id.
C28_ContactIdIsKept ==
  [][\A id \in DOMAIN kvLeads :
       kvLeads[id].brevoContactId # None => kvLeads'[id].brevoContactId # None]_vars

\* C29: under any interleaving of a purchase request with lead-intake
\* requests for the same email, once the stored lead carries the order id the
\* purchase handler wrote, it keeps that order id: no step of a lead-intake
\* request, whose updateLeadStatus reads the record and writes it back,
\* overwrites it.
C29_OrderIdSurvivesConcurrentIntake ==
  [][\A id \in DOMAIN kvLeads :
       (SheetStep /\ kvLeads[id].woocommerceOrderId # None)
       => kvLeads'[id].woocommerceOrderId = kvLeads[id].woocommerceOrderId]_vars

\* Execution k of the script posts its row to the webhook in this step.
Posts(k) == runs[k].pc = "fetch" /\ runs'[k].pc # "fetch"

\* C30: a row whose status is SUCCESS or SKIPPED is not posted to the webhook
\* and its status does not change, in any step of any execution of onEdit,
\* onChange or processAllPending; a row is posted only while its status is
\* empty, FAILED or ERROR, and a post is followed by the write of SUCCESS,
\* FAILED or ERROR to the row.
C30_ProcessedRowIsLeftAlone ==
  [][/\ \A row \in DOMAIN sheet :
          sheet[row].status \in {"SUCCESS", "SKIPPED"}
          => sheet'[row].status = sheet[row].status
     /\ \A k \in Runs :
          Posts(k)
          => /\ sheet[runs[k].row].status \in {"", "FAILED", "ERROR"}
             /\ runs'[k].pc = "setValue"
             /\ runs'[k].value \in {"SUCCESS", "FAILED", "ERROR"}]_vars

====
